---- MODULE Spec2Model ----
(***************************************************************************)
(* Breast-cancer risk form (app.py): a Streamlit script that is re-run     *)
(* top to bottom on every user interaction.  One action of this module is  *)
(* one complete script run: load_model, the sidebar form, the form         *)
(* encoder, the "Predict Risk" block, the CSV upload block and the footer. *)
(*                                                                         *)
(* The pickled pipeline (xgb_pipeline.pkl) is not part of the sources; it  *)
(* is modelled as a member of a small family of deterministic classifiers  *)
(* that honour the contract predict -> 0/1 per row, predict_proba ->       *)
(* [p_low, p_high] per row, and that may reject tables whose columns do    *)
(* not match the feature schema.  Probabilities are counted in units of    *)
(* 1/ProbScale.  Optional values are sequences of length 0 or 1.           *)
(***************************************************************************)
EXTENDS Integers, Sequences, FiniteSets, TLC

VARIABLES
    cache,          \* st.cache_resource store of load_model: <<>> or <<pipeline>>
    loads,          \* number of joblib.load calls made by this process
    artifact,       \* the pipeline currently stored in xgb_pipeline.pkl
    served,         \* history: the pipelines that have answered an inference call
    sel,            \* the session's widget selections (sidebar)
    uploaded_file,  \* the file_uploader's value: <<>> or <<file>>
    view,           \* what the last script run rendered
    twin,           \* results of the same run replayed with other inputs
    disk,           \* unknown_predictions.csv: <<>> or <<content>>
    writable        \* whether unknown_predictions.csv can be opened for writing

vars == <<cache, loads, artifact, served, sel, uploaded_file, view, twin, disk, writable>>

\* ------------------------------------------------------------------ bounds
MaxRows == 2        \* data rows of an uploaded table
ProbScale == 2      \* resolution of a probability: p is p/ProbScale
MaxLoads == 3       \* cap of the joblib.load counter

None == <<>>
Some(x) == <<x>>

SeqMax(a, b) == IF a >= b THEN a ELSE b

\* ------------------------------------------------------------ sidebar form
\* The option list of every widget, in the order the selectbox offers them.
WidgetOptions ==
    [ year                  |-> <<2013>>,
      age_group             |-> <<1, 2, 3, 4, 5, 6, 7, 8, 9, 10, 11, 12, 13>>,
      race_eth              |-> <<1, 2, 3, 4, 5, 6>>,
      first_degree_hx       |-> <<0, 1>>,
      biophx                |-> <<0, 1>>,
      age_menarche_label    |-> <<"Late", "Early", "Normal">>,
      age_first_birth_label |-> <<"Early", "Normal", "Late", "Very Late">>,
      menopaus_label        |-> <<"Pre", "Post", "Peri">>,
      birads_density        |-> <<1, 2, 3, 4>>,
      current_hrt           |-> <<0, 1>>,
      bmi_group             |-> <<1, 2, 3, 4>> ]

Widgets == DOMAIN WidgetOptions

Range(s) == {s[i] : i \in DOMAIN s}

\* A selectbox starts on its first option; the slider starts on 7.
DefaultSelection ==
    [w \in Widgets |-> IF w = "age_group" THEN 7 ELSE WidgetOptions[w][1]]

\* Variant: "Late" given the code of "Early".
age_menarche_map_dup == ("Late" :> 1) @@ ("Early" :> 1) @@ ("Normal" :> 2)

age_menarche_map == ("Late" :> 0) @@ ("Early" :> 1) @@ ("Normal" :> 2)

age_first_birth_map ==
    ("Early" :> 1) @@ ("Normal" :> 2) @@ ("Late" :> 3) @@ ("Very Late" :> 4)

menopaus_map == ("Pre" :> 1) @@ ("Post" :> 2) @@ ("Peri" :> 3)

\* dict[key]: a missing key raises KeyError.
Lookup(map, key) ==
    IF key \in DOMAIN map THEN [ok |-> TRUE, val |-> map[key]]
                          ELSE [ok |-> FALSE, val |-> -1]

\* A table (pandas DataFrame): column names, one dtype per column, rows of cells.
\* int64 cells are integers, object cells are strings, float64 cells are
\* integers counting units of 1/ProbScale.
DataFrame(columns, dtypes, data) ==
    [columns |-> columns, dtypes |-> dtypes, data |-> data]

FeatureColumns ==
    << "year", "age_group_5_years", "race_eth", "first_degree_hx",
       "age_menarche", "age_first_birth", "BIRADS_breast_density",
       "current_hrt", "menopaus", "bmi_group", "biophx" >>

\* Variant: bmi_group and biophx exchanged.
input_df_swapped(s) ==
    DataFrame(
        << "year", "age_group_5_years", "race_eth", "first_degree_hx",
           "age_menarche", "age_first_birth", "BIRADS_breast_density",
           "current_hrt", "menopaus", "biophx", "bmi_group" >>,
        [i \in 1..11 |-> "int64"],
        << << s.year, s.age_group, s.race_eth, s.first_degree_hx,
              Lookup(age_menarche_map, s.age_menarche_label).val,
              Lookup(age_first_birth_map, s.age_first_birth_label).val,
              s.birads_density, s.current_hrt,
              Lookup(menopaus_map, s.menopaus_label).val,
              s.biophx, s.bmi_group >> >>)

\* The form encoder: one row, the dict's keys in insertion order.
input_df(s) ==
    DataFrame(
        << "year", "age_group_5_years", "race_eth", "first_degree_hx",
           "age_menarche", "age_first_birth", "BIRADS_breast_density",
           "current_hrt", "menopaus", "bmi_group", "biophx" >>,
        [i \in 1..11 |-> "int64"],
        << << s.year, s.age_group, s.race_eth, s.first_degree_hx,
              Lookup(age_menarche_map, s.age_menarche_label).val,
              Lookup(age_first_birth_map, s.age_first_birth_label).val,
              s.birads_density, s.current_hrt,
              Lookup(menopaus_map, s.menopaus_label).val,
              s.bmi_group, s.biophx >> >>)

\* The three dictionary lookups of the sidebar; any KeyError stops the script.
FormLookupsOk(s) ==
    /\ Lookup(age_menarche_map, s.age_menarche_label).ok
    /\ Lookup(age_first_birth_map, s.age_first_birth_label).ok
    /\ Lookup(menopaus_map, s.menopaus_label).ok

\* ----------------------------------------------------------- the pipeline
\* An exception: its class and its message (what str(e) gives).
Exc(type, msg) == [type |-> type, msg |-> msg]
NoExc == Exc("", "")

\* Every class below derives from Exception.
ExceptionSubclasses ==
    {"EmptyDataError", "ParserError", "ValueError", "AttributeError",
     "PermissionError", "KeyError"}

\* The family of pickled pipelines.  mode says which tables a call rejects:
\*   strict   predict and predict_proba want exactly the feature schema;
\*   lenient  both select the feature columns by name and ignore the others;
\*   mixed    predict is lenient, predict_proba is strict.
\* inv says whether the decision follows first_degree_hx or its negation.
Pipelines == [mode : {"strict", "lenient", "mixed"}, inv : BOOLEAN]

HasCol(df, name) == \E j \in 1..Len(df.columns) : df.columns[j] = name
ColIndex(df, name) == CHOOSE j \in 1..Len(df.columns) : df.columns[j] = name
Cell(df, i, name) == df.data[i][ColIndex(df, name)]
Column(df, name) == [i \in 1..Len(df.data) |-> Cell(df, i, name)]

StrictSchema(df) ==
    /\ df.columns = FeatureColumns
    /\ \A j \in 1..Len(df.dtypes) : df.dtypes[j] = "int64"

LenientSchema(df) ==
    \A k \in 1..Len(FeatureColumns) :
        /\ HasCol(df, FeatureColumns[k])
        /\ df.dtypes[ColIndex(df, FeatureColumns[k])] = "int64"

PredictAccepts(m, df) ==
    IF m.mode = "strict" THEN StrictSchema(df) ELSE LenientSchema(df)

ProbaAccepts(m, df) ==
    IF m.mode = "lenient" THEN LenientSchema(df) ELSE StrictSchema(df)

\* The label of row i: 0 or 1.
PredictRow(m, df, i) ==
    LET hx == IF Cell(df, i, "first_degree_hx") >= 1 THEN 1 ELSE 0
    IN  IF m.inv THEN 1 - hx ELSE hx

\* The probabilities of row i: <<p_low, p_high>>, summing to ProbScale.
ProbaRow(m, df, i) ==
    LET p == (Cell(df, i, "biophx") + Cell(df, i, "age_menarche")) % (ProbScale + 1)
    IN  <<ProbScale - p, p>>

\* model.predict(df): one label per row, in row order, or an exception.
model_predict(m, df) ==
    IF PredictAccepts(m, df)
    THEN [ok |-> TRUE, exc |-> NoExc,
          val |-> [i \in 1..Len(df.data) |-> PredictRow(m, df, i)]]
    ELSE [ok |-> FALSE, exc |-> Exc("ValueError", "feature_names mismatch"),
          val |-> <<>>]

\* model.predict_proba(df): one probability pair per row, or an exception.
model_predict_proba(m, df) ==
    IF ProbaAccepts(m, df)
    THEN [ok |-> TRUE, exc |-> NoExc,
          val |-> [i \in 1..Len(df.data) |-> ProbaRow(m, df, i)]]
    ELSE [ok |-> FALSE, exc |-> Exc("ValueError", "feature_names mismatch"),
          val |-> <<>>]

\* @st.cache_resource: the first call unpickles the artifact and stores it,
\* every later call returns the stored object.
\* Variant: load_model without the cache decorator.
load_model_uncached(store, pkl) ==
    [model |-> pkl, cache |-> Some(pkl), loaded |-> TRUE]

load_model(store, pkl) ==
    IF store # None
    THEN [model |-> store[1], cache |-> store, loaded |-> FALSE]
    ELSE [model |-> pkl, cache |-> Some(pkl), loaded |-> TRUE]

\* --------------------------------------------------------- Predict Risk
\* f"{p*100:.2f}%": hundredths of a percent, rounded.
Percent(p) == (p * 20000 + ProbScale) \div (2 * ProbScale)

\* invoked: the model was called on the form record; shown: a label and the
\* two probabilities were displayed; crashed: the call raised.
NoRisk ==
    [invoked |-> FALSE, shown |-> FALSE, label |-> "", low |-> 0, high |-> 0,
     crashed |-> FALSE]

\* Variant: the label recomputed from the probabilities.
RiskLabel_from_proba(pred, prob) ==
    IF prob[2] > prob[1] THEN "High Risk" ELSE "Low Risk"

\* if pred == 1: st.error(High Risk) else: st.success(Low Risk)
RiskLabel(pred, prob) == IF pred = 1 THEN "High Risk" ELSE "Low Risk"

\* label and metrics from the first row of predict and predict_proba.
RiskShown(pr, pb) ==
    IF ~pr.ok \/ ~pb.ok
    THEN [NoRisk EXCEPT !.invoked = TRUE, !.crashed = TRUE]
    ELSE [invoked |-> TRUE, shown |-> TRUE,
          label |-> RiskLabel(pr.val[1], pb.val[1]),
          low |-> Percent(pb.val[1][1]), high |-> Percent(pb.val[1][2]),
          crashed |-> FALSE]

\* The block under st.button("Predict Risk"); an exception of the model is
\* not caught here and stops the script.
PredictRisk(m, df, clicked) ==
    IF ~clicked THEN NoRisk
    ELSE RiskShown(model_predict(m, df), model_predict_proba(m, df))

\* ------------------------------------------------------------- CSV text
\* A CSV text: the header line and the data lines, every field a string.
CsvText(header, rows) == [header |-> header, rows |-> rows]

\* The integers a field of the uploaded files can spell.
ParseRange == 0..13 \cup {2013}
IntTexts == {ToString(n) : n \in ParseRange}
IntOfText == [t \in IntTexts |-> CHOOSE n \in ParseRange : ToString(n) = t]
IsIntText(t) == t \in IntTexts
IntOf(t) == IntOfText[t]

\* pandas renames a repeated header name x to x.1, x.2, ...
Mangle(header) ==
    [j \in 1..Len(header) |->
        LET k == Cardinality({h \in 1..(j - 1) : header[h] = header[j]})
        IN  IF k = 0 THEN header[j] ELSE header[j] \o "." \o ToString(k)]

\* pd.read_csv(uploaded_file): no header line raises EmptyDataError, a data
\* line with more fields than the header raises ParserError; a column is
\* int64 when it has rows and all its fields are integers, object otherwise.
read_csv(file) ==
    IF Len(file.header) = 0
    THEN [ok |-> FALSE, exc |-> Exc("EmptyDataError", "No columns to parse from file"),
          df |-> DataFrame(<<>>, <<>>, <<>>)]
    ELSE IF \E i \in 1..Len(file.rows) : Len(file.rows[i]) > Len(file.header)
    THEN [ok |-> FALSE, exc |-> Exc("ParserError", "Error tokenizing data"),
          df |-> DataFrame(<<>>, <<>>, <<>>)]
    ELSE LET n == Len(file.header)
             dtypes == [j \in 1..n |->
                          IF /\ Len(file.rows) > 0
                             /\ \A i \in 1..Len(file.rows) : IsIntText(file.rows[i][j])
                          THEN "int64" ELSE "object"]
         IN  [ok |-> TRUE, exc |-> NoExc,
              df |-> DataFrame(
                        Mangle(file.header),
                        dtypes,
                        [i \in 1..Len(file.rows) |->
                            [j \in 1..n |-> IF dtypes[j] = "int64"
                                            THEN IntOf(file.rows[i][j])
                                            ELSE file.rows[i][j]]])]

FormatCell(dtype, v) ==
    IF dtype = "int64" THEN ToString(v)
    ELSE IF dtype = "float64" THEN ToString(v) \o "/" \o ToString(ProbScale)
    ELSE v

\* df.to_csv(index=...): the header line, then one line per row; with
\* index=True an unnamed first column carries the row numbers 0, 1, ...
to_csv(df, index) ==
    LET line(i) == [j \in 1..Len(df.columns) |-> FormatCell(df.dtypes[j], df.data[i][j])]
    IN  CsvText(
            IF index THEN <<"">> \o df.columns ELSE df.columns,
            [i \in 1..Len(df.data) |->
                IF index THEN <<ToString(i - 1)>> \o line(i) ELSE line(i)])

\* Variant: every assignment adds a column.
SetColumn_append(df, name, dtype, values) ==
    DataFrame(Append(df.columns, name), Append(df.dtypes, dtype),
              [i \in 1..Len(df.data) |-> Append(df.data[i], values[i])])

\* df[name] = values: an existing column keeps its place and gets the new
\* values, a new column goes to the end; values are paired with rows by position.
SetColumn(df, name, dtype, values) ==
    IF HasCol(df, name)
    THEN LET c == ColIndex(df, name)
         IN  DataFrame(df.columns,
                       [df.dtypes EXCEPT ![c] = dtype],
                       [i \in 1..Len(df.data) |-> [df.data[i] EXCEPT ![c] = values[i]]])
    ELSE DataFrame(Append(df.columns, name), Append(df.dtypes, dtype),
                   [i \in 1..Len(df.data) |-> Append(df.data[i], values[i])])

\* Variant: both keys given the same label.
risk_label_map_same == (0 :> "High Risk") @@ (1 :> "High Risk")

\* {0: "Low Risk", 1: "High Risk"}
risk_label_map == (0 :> "Low Risk") @@ (1 :> "High Risk")

\* Series.map(dict): a value that is not a key becomes NaN.
SeriesMap(values, dict) ==
    [i \in 1..Len(values) |->
        IF values[i] \in DOMAIN dict THEN dict[values[i]] ELSE "nan"]

\* Variant: the maximum of the first row for every row.
RowMax_first(probs) ==
    [i \in 1..Len(probs) |-> SeqMax(probs[1][1], probs[1][2])]

\* probs.max(axis=1): the larger probability of every row.
RowMax(probs) ==
    [i \in 1..Len(probs) |-> SeqMax(probs[i][1], probs[i][2])]

\* ------------------------------------------------------------ Predict CSV
EmptyFrame == DataFrame(<<>>, <<>>, <<>>)

\* The names the script has bound when it reaches the CSV section.
Namespace(m, form_df) == [model |-> m, input_df |-> form_df]

\* What the statements under st.button("Predict CSV") leave behind.
CsvOutcome(raised, called, preds, probs, table, shown, disk_after, wrote, download) ==
    [raised |-> raised, called |-> called, preds |-> preds, probs |-> probs,
     table |-> table, shown |-> shown, disk |-> disk_after, wrote |-> wrote,
     download |-> download]

\* st.download_button(data=csv_df.to_csv(index=False))
download_data(df) == to_csv(df, FALSE)

PermissionDenied == Exc("PermissionError", "Permission denied")

\* The three column assignments: prediction, risk_label (mapped from the
\* prediction column of the frame), confidence.
WithPrediction(csv_df, preds) == SetColumn(csv_df, "prediction", "int64", preds)

WithRiskLabel(d1) ==
    SetColumn(d1, "risk_label", "object",
              SeriesMap(Column(d1, "prediction"), risk_label_map))

WithConfidence(d2, probs) == SetColumn(d2, "confidence", "float64", RowMax(probs))

Augmented(csv_df, preds, probs) ==
    WithConfidence(WithRiskLabel(WithPrediction(csv_df, preds)), probs)

\* csv_df.to_csv("unknown_predictions.csv"), the result table, the download.
Persist(m, preds, probs, d3, disk_before, wr) ==
    IF ~wr
    THEN CsvOutcome(Some(PermissionDenied), {m}, preds, probs, d3, FALSE,
                    disk_before, FALSE, None)
    ELSE CsvOutcome(None, {m}, preds, probs, d3, TRUE,
                    Some(to_csv(d3, FALSE)), TRUE, Some(download_data(d3)))

\* Variant: the file is written before predict_proba has returned.
PredictCsv_early(ns, csv_df, disk_before, wr) ==
    LET Steps(pr, pb) ==
            IF ~pr.ok
            THEN CsvOutcome(Some(pr.exc), {ns.model}, <<>>, <<>>, csv_df, FALSE,
                            disk_before, FALSE, None)
            ELSE IF wr /\ ~pb.ok
            THEN CsvOutcome(Some(pb.exc), {ns.model}, pr.val, <<>>, csv_df, FALSE,
                            Some(to_csv(WithRiskLabel(WithPrediction(csv_df, pr.val)), FALSE)),
                            TRUE, None)
            ELSE IF ~pb.ok
            THEN CsvOutcome(Some(pb.exc), {ns.model}, pr.val, <<>>, csv_df, FALSE,
                            disk_before, FALSE, None)
            ELSE Persist(ns.model, pr.val, pb.val, Augmented(csv_df, pr.val, pb.val),
                         disk_before, wr)
    IN  Steps(model_predict(ns.model, csv_df), model_predict_proba(ns.model, csv_df))

\* Variant: predict called on the form record instead of the uploaded table.
PredictCsv_form(ns, csv_df, disk_before, wr) ==
    LET Steps(pr, pb) ==
            IF ~pr.ok
            THEN CsvOutcome(Some(pr.exc), {ns.model}, <<>>, <<>>, csv_df, FALSE,
                            disk_before, FALSE, None)
            ELSE IF ~pb.ok
            THEN CsvOutcome(Some(pb.exc), {ns.model}, pr.val, <<>>, csv_df, FALSE,
                            disk_before, FALSE, None)
            ELSE IF Len(pr.val) # Len(csv_df.data)
            THEN CsvOutcome(Some(Exc("ValueError", "Length of values does not match length of index")),
                            {ns.model}, pr.val, pb.val, csv_df, FALSE,
                            disk_before, FALSE, None)
            ELSE Persist(ns.model, pr.val, pb.val, Augmented(csv_df, pr.val, pb.val),
                         disk_before, wr)
    IN  Steps(model_predict(ns.model, ns.input_df), model_predict_proba(ns.model, csv_df))

\* preds, probs, the three column assignments, to_csv to the fixed file, the
\* result table and the download button, in this order; the first exception
\* ends the sequence.
PredictCsv(ns, csv_df, disk_before, wr) ==
    LET Steps(pr, pb) ==
            IF ~pr.ok
            THEN CsvOutcome(Some(pr.exc), {ns.model}, <<>>, <<>>, csv_df, FALSE,
                            disk_before, FALSE, None)
            ELSE IF ~pb.ok
            THEN CsvOutcome(Some(pb.exc), {ns.model}, pr.val, <<>>, csv_df, FALSE,
                            disk_before, FALSE, None)
            ELSE Persist(ns.model, pr.val, pb.val, Augmented(csv_df, pr.val, pb.val),
                         disk_before, wr)
    IN  Steps(model_predict(ns.model, csv_df), model_predict_proba(ns.model, csv_df))

\* Variant: a handler for the parser's exceptions only.
Catches_parser_only(e) == e.type \in {"EmptyDataError", "ParserError"}

\* except Exception as e
Catches(e) == e.type \in ExceptionSubclasses

\* What the block "if uploaded_file is not None: try ... except" renders.
\*   entered         a file was uploaded
\*   uploaded_shown  the parsed table was displayed
\*   csv_button      the "Predict CSV" button was rendered
\*   error           the message of st.error, if the handler ran
\*   crashed         an exception left the block
CsvBlock(ns, up, clicked, disk_before, wr) ==
    LET Idle(df) == CsvOutcome(None, {}, <<>>, <<>>, df, FALSE,
                               disk_before, FALSE, None)
        Handled(parsed, o) ==
            [entered |-> TRUE, uploaded_shown |-> parsed, csv_button |-> parsed,
             error |-> IF o.raised # None /\ Catches(o.raised[1])
                       THEN Some("CSV Error: " \o o.raised[1].msg) ELSE None,
             crashed |-> o.raised # None /\ ~Catches(o.raised[1]),
             out |-> o]
        Try(rd) ==
            Handled(rd.ok,
                    IF ~rd.ok THEN [Idle(rd.df) EXCEPT !.raised = Some(rd.exc)]
                    ELSE IF clicked THEN PredictCsv(ns, rd.df, disk_before, wr)
                    ELSE Idle(rd.df))
    IN  IF up = None
        THEN [entered |-> FALSE, uploaded_shown |-> FALSE, csv_button |-> FALSE,
              error |-> None, crashed |-> FALSE, out |-> Idle(EmptyFrame)]
        ELSE Try(read_csv(up[1]))

\* ------------------------------------------------------------ script run
\* One run of app.py from the first line to the footer.  An uncaught
\* exception stops the run where it is raised.
Run(store, pkl, s, riskClick, up, csvClick, disk_before, wr) ==
    LET Footer(lm, formOk, df, risk, blk) ==
            [cache |-> lm.cache,
             loaded |-> lm.loaded,
             served |-> (IF formOk /\ riskClick THEN {lm.model} ELSE {})
                           \cup blk.out.called,
             disk |-> blk.out.disk,
             view |-> [opened |-> TRUE,
                       input_df |-> df,
                       risk_button |-> formOk,
                       risk_clicked |-> riskClick,
                       risk |-> risk,
                       uploader |-> formOk /\ ~risk.crashed,
                       csv_clicked |-> csvClick,
                       csv |-> blk,
                       footer |-> formOk /\ ~risk.crashed /\ ~blk.crashed,
                       crashed |-> ~formOk \/ risk.crashed \/ blk.crashed]]
        CsvSection(lm, formOk, df, risk) ==
            Footer(lm, formOk, df, risk,
                   CsvBlock(Namespace(lm.model, df),
                            IF formOk /\ ~risk.crashed THEN up ELSE None,
                            formOk /\ ~risk.crashed /\ csvClick, disk_before, wr))
        Prediction(lm, formOk, df) ==
            CsvSection(lm, formOk, df,
                       IF formOk THEN PredictRisk(lm.model, df, riskClick) ELSE NoRisk)
        Sidebar(lm, formOk) ==
            Prediction(lm, formOk, IF formOk THEN input_df(s) ELSE EmptyFrame)
    IN  Sidebar(load_model(store, pkl), FormLookupsOk(s))

\* ------------------------------------------------------- uploaded files
\* Row i of a generated table, as CSV fields in the order of FeatureColumns.
FeatureRow(i) ==
    << "2013", "7", "1", ToString(i % 2), ToString(i % 3), "2", "2", "0", "1",
       "2", ToString((i \div 2) % 2) >>

FileKinds ==
    {"exact", "extra", "missing", "prediction", "risk_label", "confidence", "dup"}

\* The uploaded tables: the feature schema, the schema with an unexpected
\* column, with a column missing, with a column that already carries one of
\* the three result names, with a repeated header name.
CsvFile(kind, n) ==
    CASE kind = "exact"      -> CsvText(FeatureColumns, [i \in 1..n |-> FeatureRow(i)])
      [] kind = "extra"      -> CsvText(Append(FeatureColumns, "note"),
                                        [i \in 1..n |-> Append(FeatureRow(i), "n")])
      [] kind = "missing"    -> CsvText(SubSeq(FeatureColumns, 1, 10),
                                        [i \in 1..n |-> SubSeq(FeatureRow(i), 1, 10)])
      [] kind = "prediction" -> CsvText(<<"prediction">> \o FeatureColumns,
                                        [i \in 1..n |-> <<"1">> \o FeatureRow(i)])
      [] kind = "risk_label" -> CsvText(Append(FeatureColumns, "risk_label"),
                                        [i \in 1..n |-> Append(FeatureRow(i), "old")])
      [] kind = "confidence" -> CsvText(Append(FeatureColumns, "confidence"),
                                        [i \in 1..n |-> Append(FeatureRow(i), "0")])
      [] kind = "dup"        -> CsvText(Append(FeatureColumns, "year"),
                                        [i \in 1..n |-> Append(FeatureRow(i), "2013")])

EmptyFile == CsvText(<<>>, <<>>)
RaggedFile == CsvText(FeatureColumns, <<Append(FeatureRow(1), "9")>>)

CsvFiles ==
    {CsvFile(k, n) : k \in FileKinds, n \in {0, MaxRows}} \cup {EmptyFile, RaggedFile}

\* The files and widgets of the smaller specifications.
FewFiles == {CsvFile("exact", 1), CsvFile("prediction", 1), EmptyFile}
PairFiles == {CsvFile("exact", 1), EmptyFile}
FewWidgets == {"first_degree_hx", "biophx"}

\* --------------------------------------------------------------- actions
BlankView ==
    [opened |-> FALSE, input_df |-> EmptyFrame, risk_button |-> FALSE,
     risk_clicked |-> FALSE, risk |-> NoRisk, uploader |-> FALSE,
     csv_clicked |-> FALSE,
     csv |-> CsvBlock(Namespace([mode |-> "strict", inv |-> FALSE], EmptyFrame),
                      None, FALSE, None, TRUE),
     footer |-> FALSE, crashed |-> FALSE]

\* What a CSV section leaves for the user: the messages, the table, the
\* written file and the download, all as text.
BatchResult(blk) ==
    [error |-> blk.error, crashed |-> blk.crashed, shown |-> blk.out.shown,
     table |-> to_csv(blk.out.table, FALSE), disk |-> blk.out.disk,
     download |-> blk.out.download]

BlankTwin ==
    [altS |-> DefaultSelection, altUp |-> None, pkl |-> None,
     batch |-> BatchResult(BlankView.csv), risk |-> NoRisk]

\* The process has started; no browser session has run the script yet.
Init ==
    /\ cache = None
    /\ loads = 0
    /\ artifact \in Pipelines
    /\ served = {}
    /\ sel = DefaultSelection
    /\ uploaded_file = None
    /\ view = BlankView
    /\ twin = BlankTwin
    /\ disk = None
    /\ writable = TRUE

\* Other selections of the form, other uploads: the inputs of the replayed run.
AltSelections(s, pair) ==
    IF pair
    THEN {[s EXCEPT !.first_degree_hx = a] : a \in {0, 1}}
    ELSE {s}

AltUploads(up, pair) ==
    IF pair THEN {None} \cup {Some(f) : f \in PairFiles} ELSE {up}

\* The script runs with selections s, upload up and at most one button
\* pressed.  twin is an observer: it records the artifact that was on disk
\* during the run, the CSV section of the same run with the form selections
\* altS, and the Predict Risk result of the same run with the upload altUp.
ScriptRun(s, riskClick, up, csvClick, altS, altUp) ==
    \E r \in {Run(cache, artifact, s, riskClick, up, csvClick, disk, writable)} :
        /\ cache' = r.cache
        /\ loads' = IF r.loaded /\ loads < MaxLoads THEN loads + 1 ELSE loads
        /\ served' = served \cup r.served
        /\ sel' = s
        /\ uploaded_file' = up
        /\ view' = r.view
        /\ twin' =
              [altS |-> altS, altUp |-> altUp, pkl |-> Some(artifact),
               batch |-> BatchResult(
                   IF altS = s THEN r.view.csv
                   ELSE Run(cache, artifact, altS, riskClick, up, csvClick,
                            disk, writable).view.csv),
               risk |-> IF altUp = up THEN r.view.risk
                        ELSE Run(cache, artifact, s, riskClick, altUp, csvClick,
                                 disk, writable).view.risk]
        /\ disk' = r.disk
        /\ UNCHANGED <<artifact, writable>>

\* A browser opens the page: a new session with the default selections.
OpenPage(pair) ==
    \E altS \in AltSelections(DefaultSelection, pair), altUp \in AltUploads(None, pair) :
        ScriptRun(DefaultSelection, FALSE, None, FALSE, altS, altUp)

\* The script is run again with the session's current inputs.
Rerun(pair) ==
    \E altS \in AltSelections(sel, pair), altUp \in AltUploads(uploaded_file, pair) :
        ScriptRun(sel, FALSE, uploaded_file, FALSE, altS, altUp)

\* The user changes one widget of the sidebar.
ChangeWidget(W, pair) ==
    /\ view.opened
    /\ \E w \in W : \E k \in 1..Len(WidgetOptions[w]) :
          /\ WidgetOptions[w][k] # sel[w]
          /\ LET s == [sel EXCEPT ![w] = WidgetOptions[w][k]]
             IN  \E altS \in AltSelections(s, pair), altUp \in AltUploads(uploaded_file, pair) :
                    ScriptRun(s, FALSE, uploaded_file, FALSE, altS, altUp)

\* The user presses "Predict Risk".
ClickPredictRisk(pair) ==
    /\ view.risk_button
    /\ \E altS \in AltSelections(sel, pair), altUp \in AltUploads(uploaded_file, pair) :
          ScriptRun(sel, TRUE, uploaded_file, FALSE, altS, altUp)

\* The user uploads a file.
Upload(F, pair) ==
    /\ view.uploader
    /\ \E f \in F :
          /\ uploaded_file # Some(f)
          /\ \E altS \in AltSelections(sel, pair), altUp \in AltUploads(Some(f), pair) :
                ScriptRun(sel, FALSE, Some(f), FALSE, altS, altUp)

\* The user removes the uploaded file.
RemoveUpload(pair) ==
    /\ view.uploader
    /\ uploaded_file # None
    /\ \E altS \in AltSelections(sel, pair), altUp \in AltUploads(None, pair) :
          ScriptRun(sel, FALSE, None, FALSE, altS, altUp)

\* The user presses "Predict CSV".
ClickPredictCSV(pair) ==
    /\ view.csv.csv_button
    /\ \E altS \in AltSelections(sel, pair), altUp \in AltUploads(uploaded_file, pair) :
          ScriptRun(sel, FALSE, uploaded_file, TRUE, altS, altUp)

\* Environment: xgb_pipeline.pkl is replaced on disk while the process runs.
ReplaceArtifact ==
    /\ \E m \in Pipelines : m # artifact /\ artifact' = m
    /\ UNCHANGED <<cache, loads, served, sel, uploaded_file, view, twin, disk, writable>>

\* Environment: the permissions of unknown_predictions.csv change.
ToggleWritable ==
    /\ writable' = ~writable
    /\ UNCHANGED <<cache, loads, artifact, served, sel, uploaded_file, view, twin, disk>>

\* ------------------------------------------------------- specifications
\* The application with one fixed artifact.
Next ==
    \/ OpenPage(FALSE)
    \/ ChangeWidget(FewWidgets, FALSE)
    \/ ClickPredictRisk(FALSE)
    \/ Upload(CsvFiles, FALSE)
    \/ RemoveUpload(FALSE)
    \/ ClickPredictCSV(FALSE)
    \/ ToggleWritable

Spec == Init /\ [][Next]_vars

\* The sidebar form over the full range of every widget.
AllSelections ==
    [ year                  : Range(WidgetOptions.year),
      age_group             : Range(WidgetOptions.age_group),
      race_eth              : Range(WidgetOptions.race_eth),
      first_degree_hx       : Range(WidgetOptions.first_degree_hx),
      biophx                : Range(WidgetOptions.biophx),
      age_menarche_label    : Range(WidgetOptions.age_menarche_label),
      age_first_birth_label : Range(WidgetOptions.age_first_birth_label),
      menopaus_label        : Range(WidgetOptions.menopaus_label),
      birads_density        : Range(WidgetOptions.birads_density),
      current_hrt           : Range(WidgetOptions.current_hrt),
      bmi_group             : Range(WidgetOptions.bmi_group) ]

InitForm ==
    /\ cache = None
    /\ loads = 0
    /\ artifact = [mode |-> "strict", inv |-> FALSE]
    /\ served = {}
    /\ sel \in AllSelections
    /\ uploaded_file = None
    /\ view = BlankView
    /\ twin = BlankTwin
    /\ disk = None
    /\ writable = TRUE

NextForm == Rerun(FALSE)

SpecForm == InitForm /\ [][NextForm]_vars

\* The application while the artifact file is replaced under it.
NextDeploy ==
    \/ OpenPage(FALSE)
    \/ ChangeWidget(FewWidgets, FALSE)
    \/ ClickPredictRisk(FALSE)
    \/ Upload(FewFiles, FALSE)
    \/ ClickPredictCSV(FALSE)
    \/ ReplaceArtifact

SpecDeploy == Init /\ [][NextDeploy]_vars

\* Every run replayed with other form selections and with another upload.
NextPair ==
    \/ OpenPage(TRUE)
    \/ ChangeWidget(FewWidgets, TRUE)
    \/ ClickPredictRisk(TRUE)
    \/ Upload(FewFiles, TRUE)
    \/ RemoveUpload(TRUE)
    \/ ClickPredictCSV(TRUE)

SpecPair == Init /\ [][NextPair]_vars

TypeOK ==
    /\ loads \in 0..MaxLoads
    /\ artifact \in Pipelines
    /\ writable \in BOOLEAN
    /\ Len(cache) <= 1
    /\ Len(uploaded_file) <= 1
    /\ Len(disk) <= 1

\* ---------------------------------------------------------------- claims
\* The pipeline the process holds, and the table parsed from the upload.
Loaded == cache[1]
Parsed == read_csv(uploaded_file[1])
ResultColumns == <<"prediction", "risk_label", "confidence">>

\* The codes of the data model, label by label.
MenarcheCode(l) == CASE l = "Late" -> 0 [] l = "Early" -> 1 [] l = "Normal" -> 2
FirstBirthCode(l) ==
    CASE l = "Early" -> 1 [] l = "Normal" -> 2 [] l = "Late" -> 3 [] l = "Very Late" -> 4
MenopauseCode(l) == CASE l = "Pre" -> 1 [] l = "Post" -> 2 [] l = "Peri" -> 3

\* C1: for every combination of widget selections the assembled record is one
\* row with the 11 columns year, age_group_5_years, race_eth, first_degree_hx,
\* age_menarche, age_first_birth, BIRADS_breast_density, current_hrt,
\* menopaus, bmi_group, biophx in this order, each holding the integer code
\* of its selection.
C1_FormRecord ==
    view.opened =>
        /\ view.input_df.columns =
              << "year", "age_group_5_years", "race_eth", "first_degree_hx",
                 "age_menarche", "age_first_birth", "BIRADS_breast_density",
                 "current_hrt", "menopaus", "bmi_group", "biophx" >>
        /\ Len(view.input_df.data) = 1
        /\ view.input_df.data[1] =
              << sel.year, sel.age_group, sel.race_eth, sel.first_degree_hx,
                 MenarcheCode(sel.age_menarche_label),
                 FirstBirthCode(sel.age_first_birth_label),
                 sel.birads_density, sel.current_hrt,
                 MenopauseCode(sel.menopaus_label),
                 sel.bmi_group, sel.biophx >>
        /\ \A j \in 1..Len(view.input_df.dtypes) : view.input_df.dtypes[j] = "int64"

\* The record of a form whose every widget is off its first option.
C1_Witness ==
    /\ view.opened
    /\ sel.age_group = 13 /\ sel.race_eth = 6 /\ sel.first_degree_hx = 1
    /\ sel.age_menarche_label = "Normal" /\ sel.age_first_birth_label = "Very Late"
    /\ sel.menopaus_label = "Peri" /\ sel.birads_density = 4 /\ sel.current_hrt = 1
    /\ sel.bmi_group = 3 /\ sel.biophx = 0
    /\ view.input_df.data[1] = <<2013, 13, 6, 1, 2, 4, 4, 1, 3, 3, 0>>

Injective(map, labels) ==
    \A a \in labels : \A b \in labels : map[a] = map[b] => a = b

\* C2: each of the three lookup tables is total on the labels its selectbox
\* offers, injective, and maps onto exactly its declared codes (menarche
\* Late 0, Early 1, Normal 2; first birth Early 1, Normal 2, Late 3, Very
\* Late 4; menopause Pre 1, Post 2, Peri 3), so the selected labels never
\* raise a missing-key failure.
C2_LookupTables ==
    /\ Range(WidgetOptions.age_menarche_label) \subseteq DOMAIN age_menarche_map
    /\ Range(WidgetOptions.age_first_birth_label) \subseteq DOMAIN age_first_birth_map
    /\ Range(WidgetOptions.menopaus_label) \subseteq DOMAIN menopaus_map
    /\ Injective(age_menarche_map, Range(WidgetOptions.age_menarche_label))
    /\ Injective(age_first_birth_map, Range(WidgetOptions.age_first_birth_label))
    /\ Injective(menopaus_map, Range(WidgetOptions.menopaus_label))
    /\ Lookup(age_menarche_map, sel.age_menarche_label) =
          [ok |-> TRUE, val |-> MenarcheCode(sel.age_menarche_label)]
    /\ Lookup(age_first_birth_map, sel.age_first_birth_label) =
          [ok |-> TRUE, val |-> FirstBirthCode(sel.age_first_birth_label)]
    /\ Lookup(menopaus_map, sel.menopaus_label) =
          [ok |-> TRUE, val |-> MenopauseCode(sel.menopaus_label)]
    /\ {age_menarche_map[l] : l \in DOMAIN age_menarche_map} = {0, 1, 2}
    /\ {age_first_birth_map[l] : l \in DOMAIN age_first_birth_map} = {1, 2, 3, 4}
    /\ {menopaus_map[l] : l \in DOMAIN menopaus_map} = {1, 2, 3}
    /\ view.opened => ~view.crashed

\* The spec's examples: Early -> 1 for menarche, Normal -> 2 for first birth.
C2_Witness ==
    /\ view.opened /\ ~view.crashed
    /\ sel.age_menarche_label = "Early" /\ view.input_df.data[1][5] = 1
    /\ sel.age_first_birth_label = "Normal" /\ view.input_df.data[1][6] = 2
    /\ sel.menopaus_label = "Post" /\ view.input_df.data[1][9] = 2

ResultTable == view.csv.out.table
ResultRows == 1..Len(ResultTable.data)

\* C3: in the table of a batch prediction every row has prediction 0 iff its
\* risk_label is "Low Risk" and prediction 1 iff it is "High Risk", and no
\* row has another risk_label.
C3_RiskLabelConsistent ==
    view.csv.out.shown =>
        \A i \in ResultRows :
            /\ Cell(ResultTable, i, "prediction") = 0
                  <=> Cell(ResultTable, i, "risk_label") = "Low Risk"
            /\ Cell(ResultTable, i, "prediction") = 1
                  <=> Cell(ResultTable, i, "risk_label") = "High Risk"
            /\ Cell(ResultTable, i, "risk_label") \in {"Low Risk", "High Risk"}

\* A result table with a row of each label.
C3_Witness ==
    /\ view.csv.out.shown
    /\ \E i \in ResultRows : Cell(ResultTable, i, "prediction") = 0
    /\ \E i \in ResultRows : Cell(ResultTable, i, "prediction") = 1

\* C4: in the table of a batch prediction the confidence of row i is the
\* larger of the two probabilities predict_proba returned for row i, and
\* row i still carries the features of the i-th uploaded row.
C4_ConfidenceIsRowMax ==
    view.csv.out.shown =>
        /\ Len(ResultTable.data) = Len(Parsed.df.data)
        /\ Len(view.csv.out.probs) = Len(Parsed.df.data)
        /\ \A i \in ResultRows :
              LET c == Cell(ResultTable, i, "confidence")
                  pair == view.csv.out.probs[i]
              IN  /\ c \in {pair[1], pair[2]}
                  /\ c >= pair[1] /\ c >= pair[2]
                  /\ pair = ProbaRow(Loaded, Parsed.df, i)
                  /\ \A k \in 1..Len(FeatureColumns) :
                        Cell(ResultTable, i, FeatureColumns[k]) =
                            Cell(Parsed.df, i, FeatureColumns[k])

\* A result table whose rows have different confidences.
C4_Witness ==
    /\ view.csv.out.shown
    /\ \E i \in ResultRows : \E j \in ResultRows :
          Cell(ResultTable, i, "confidence") # Cell(ResultTable, j, "confidence")

\* C5: with a file uploaded, an exception of the parser, of predict or of
\* predict_proba is caught and shown as "CSV Error" with its message, the
\* script goes on to the footer, and no exception leaves the CSV section.
C5_CsvErrorCatchAll ==
    view.csv.entered =>
        /\ view.footer /\ ~view.crashed /\ ~view.csv.crashed
        /\ ~Parsed.ok => view.csv.error = Some("CSV Error: " \o Parsed.exc.msg)
        /\ (Parsed.ok /\ view.csv_clicked /\ ~model_predict(Loaded, Parsed.df).ok)
              => view.csv.error =
                    Some("CSV Error: " \o model_predict(Loaded, Parsed.df).exc.msg)
        /\ (/\ Parsed.ok /\ view.csv_clicked
            /\ model_predict(Loaded, Parsed.df).ok
            /\ ~model_predict_proba(Loaded, Parsed.df).ok)
              => view.csv.error =
                    Some("CSV Error: " \o model_predict_proba(Loaded, Parsed.df).exc.msg)
        /\ view.csv.out.raised # None
              => view.csv.error = Some("CSV Error: " \o view.csv.out.raised[1].msg)
        /\ view.csv.out.raised = None => view.csv.error = None

\* A table with a missing column, rejected by the model, reported, footer reached.
C5_Witness ==
    /\ view.csv.entered /\ view.csv_clicked
    /\ Parsed.ok /\ ~HasCol(Parsed.df, "biophx")
    /\ view.csv.out.raised # None
    /\ view.csv.out.raised[1].type = "ValueError"
    /\ view.csv.error = Some("CSV Error: feature_names mismatch")
    /\ view.footer

\* C6 as stated: after a successful batch prediction the written file and
\* the download are identical and their columns are the uploaded columns
\* followed by prediction, risk_label, confidence, also for a table that
\* already has a column with one of these names.
C6_Original ==
    view.csv.out.shown =>
        /\ disk = view.csv.out.download
        /\ disk[1].header = Parsed.df.columns \o ResultColumns

IsNewColumn(name) == ~HasCol(Parsed.df, name)

\* C6 amended: after a successful batch prediction the written file and the
\* download are identical, with one line per uploaded row; their columns are
\* the uploaded columns in their order, followed by those of prediction,
\* risk_label, confidence that the upload did not have; a result name the
\* upload already had keeps its place and is not added a second time.
C6_ColumnsAppendedOrReplaced ==
    view.csv.out.shown =>
        /\ disk = view.csv.out.download
        /\ disk[1].header = Parsed.df.columns \o SelectSeq(ResultColumns, IsNewColumn)
        /\ Len(disk[1].rows) = Len(Parsed.df.data)
        /\ \A i \in 1..Len(disk[1].rows) : Len(disk[1].rows[i]) = Len(disk[1].header)

\* A successful batch prediction on a table that came with a prediction column.
C6_Witness ==
    /\ view.csv.out.shown
    /\ HasCol(Parsed.df, "prediction")
    /\ Len(disk[1].header) = Len(Parsed.df.columns) + 2

\* C7: on "Predict Risk" the label shown is "High Risk" iff predict returned
\* 1 for the form record and "Low Risk" otherwise, whatever the
\* probabilities, and both probabilities are shown; without the trigger the
\* model is not called on the form record and no label is shown.
C7_LabelFollowsPredict ==
    view.opened =>
        /\ view.risk_clicked =>
              LET pr == model_predict(Loaded, view.input_df)
                  pb == model_predict_proba(Loaded, view.input_df)
              IN  /\ view.risk.invoked /\ view.risk.shown
                  /\ view.risk.label = "High Risk" <=> pr.val[1] = 1
                  /\ view.risk.label = "Low Risk" <=> pr.val[1] # 1
                  /\ view.risk.low = Percent(pb.val[1][1])
                  /\ view.risk.high = Percent(pb.val[1][2])
        /\ ~view.risk_clicked => ~view.risk.invoked /\ ~view.risk.shown

\* "High Risk" shown although the High probability is not the larger one.
C7_Witness ==
    /\ view.risk_clicked /\ view.risk.shown
    /\ view.risk.label = "High Risk"
    /\ view.risk.high < view.risk.low

\* C8: a run replayed with other form selections gives the same batch
\* result (error, table, written file, download), and a run replayed with
\* another upload gives the same Predict Risk result.
C8_PathsIndependent ==
    view.opened =>
        /\ twin.batch = BatchResult(view.csv)
        /\ twin.risk = view.risk

\* A batch result that was replayed with another first_degree_hx and without
\* the upload.
C8_Witness ==
    /\ view.csv.out.shown
    /\ twin.altS.first_degree_hx # sel.first_degree_hx
    /\ twin.altUp # uploaded_file
    /\ twin.batch.shown

\* C9: the artifact is loaded at most once, and every inference call, single
\* or batch, is answered by the pipeline that was loaded then, whatever the
\* interactions and whatever is in the artifact file by now.
C9_LoadedOnceSharedReadOnly ==
    /\ loads <= 1
    /\ Cardinality(served) <= 1
    /\ cache = None => loads = 0 /\ served = {}
    /\ cache # None => loads = 1 /\ served \subseteq {Loaded}
    /\ view.risk.shown =>
          view.risk.label =
              RiskLabel(model_predict(Loaded, view.input_df).val[1],
                        model_predict_proba(Loaded, view.input_df).val[1])

\* A prediction made while the artifact file holds another pipeline, one that
\* would have answered differently.
C9_Witness ==
    /\ view.risk.shown
    /\ twin.pkl # None /\ twin.pkl[1] # Loaded
    /\ served = {Loaded}
    /\ model_predict(twin.pkl[1], view.input_df).val[1]
          # model_predict(Loaded, view.input_df).val[1]

\* The run that produced the view had an upload that parsed, the "Predict
\* CSV" trigger, and predict and predict_proba both returned.
BatchSucceeded ==
    /\ uploaded_file # None
    /\ view.csv_clicked
    /\ Parsed.ok
    /\ model_predict(Loaded, Parsed.df).ok
    /\ model_predict_proba(Loaded, Parsed.df).ok

\* C10: unknown_predictions.csv is written only by a run with an upload that
\* parsed, the "Predict CSV" trigger and both model calls returning; every
\* other run leaves the file as it was and offers no download.
C10_WriteOnlyOnSuccess ==
    [][ ~BatchSucceeded' =>
            /\ disk' = disk
            /\ ~view'.csv.out.wrote
            /\ view'.csv.out.download = None ]_vars

\* predict returned, predict_proba raised, and the file of an earlier
\* successful run is still there.
C10_Witness ==
    /\ uploaded_file # None /\ view.csv_clicked /\ Parsed.ok
    /\ model_predict(Loaded, Parsed.df).ok
    /\ ~model_predict_proba(Loaded, Parsed.df).ok
    /\ view.csv.error # None
    /\ disk # None
    /\ ~view.csv.out.wrote

====
